---- MODULE Spec2Model ----
(***************************************************************************)
(* A model of the Lua tokenizer of src/lua-tokenize.js.                    *)
(*                                                                         *)
(* The input is a sequence of 16-bit code units (naturals).  Offsets are   *)
(* 0-based as in the source: charCodeAt(input, i) is input[i + 1].  The    *)
(* generator `tokenize` is a state machine: Begin evaluates the shebang    *)
(* test, ShebangStep is one iteration of the shebang loop, and Pull is one *)
(* call of lex() by the consumer, which yields a token, ends the stream or *)
(* raises a lexical error.  The scanners are operators that take the scan  *)
(* cursor and return the new cursor with their result.                     *)
(*                                                                         *)
(* Strings are sequences of code units.  Numbers are exact:  <<m, a, b>>   *)
(* stands for m * 2^a * 5^b with m prime to 10 (<<0, 0, 0>> is zero), which *)
(* is what the double arithmetic of the source gives as long as the         *)
(* mantissa fits 53 bits, as it does within the bounds of this model.       *)
(* options.comments (the caller's comment collection) is not modelled: the *)
(* tokenizer only appends to it.                                           *)
(***************************************************************************)
EXTENDS Integers, Sequences, FiniteSets, TLC

VARIABLES input, options, index, line, lineStart, tokenStart, pc, token, error

vars == <<input, options, index, line, lineStart, tokenStart, pc, token, error>>

\* ------------------------------------------------------------------------
\* Token kinds
\* ------------------------------------------------------------------------
StringLiteral == 2
Keyword == 4
Identifier == 8
NumericLiteral == 16
Punctuator == 32
BooleanLiteral == 64
NilLiteral == 128
VarargLiteral == 256

\* ------------------------------------------------------------------------
\* Host-language values
\* ------------------------------------------------------------------------
\* charCodeAt past the end is NaN and charAt past the end is "": both are
\* the code NaN here, which equals no code unit and belongs to no class.
NaN == 0 - 1

\* The null of encodeUTF8 and readLongString.
null == <<NaN>>

\* A field a record does not have.
absent == 0 - 1

Min(a, b) == IF a < b THEN a ELSE b

Max(a, b) == IF a > b THEN a ELSE b

\* The element of a one-element set.  Only({e(c) : c \in {x}}) is e(x) with x
\* evaluated once, however often e uses it.
Only(S) == CHOOSE x \in S : TRUE

RECURSIVE Pow(_, _)
Pow(b, n) == IF n <= 0 THEN 1 ELSE b * Pow(b, n - 1)

charCodeAt(s, i) == IF i >= 0 /\ i < Len(s) THEN s[i + 1] ELSE NaN

\* String.prototype.slice(a, b): a negative offset counts from the end.
slice(s, a, b) ==
    LET lo == IF a < 0 THEN Max(Len(s) + a, 0) ELSE a
        hi == IF b < 0 THEN Max(Len(s) + b, 0) ELSE Min(b, Len(s))
    IN  IF lo >= hi THEN <<>> ELSE SubSeq(s, lo + 1, hi)

\* charAt(i) as a string: one unit, or "" past the end.
charAt(s, i) == IF i >= 0 /\ i < Len(s) THEN <<s[i + 1]>> ELSE <<>>

\* ------------------------------------------------------------------------
\* Validation functions
\* ------------------------------------------------------------------------
isWhiteSpace(charCode) ==
    9 = charCode \/ 32 = charCode \/ 11 = charCode \/ 12 = charCode

isLineTerminator(charCode) == 10 = charCode \/ 13 = charCode

isDecDigit(charCode) == charCode >= 48 /\ charCode <= 57

isHexDigit(charCode) ==
    \/ (charCode >= 48 /\ charCode <= 57)
    \/ (charCode >= 97 /\ charCode <= 102)
    \/ (charCode >= 65 /\ charCode <= 70)

isIdentifierStart(opts, charCode) ==
    \/ (charCode >= 65 /\ charCode <= 90)
    \/ (charCode >= 97 /\ charCode <= 122)
    \/ 95 = charCode
    \/ (opts.extendedIdentifiers /\ charCode >= 128)

isIdentifierPart(opts, charCode) ==
    \/ (charCode >= 65 /\ charCode <= 90)
    \/ (charCode >= 97 /\ charCode <= 122)
    \/ 95 = charCode
    \/ (charCode >= 48 /\ charCode <= 57)
    \/ (opts.extendedIdentifiers /\ charCode >= 128)

\* ------------------------------------------------------------------------
\* Dialect configuration
\* ------------------------------------------------------------------------
LuaVersions == {"5.1", "5.2", "5.3", "JIT"}

\* Mutant of versionFeatures: the JIT entry lacks hexEscapes.
versionFeatures_JitNoHex(v) ==
    [labels               |-> v \in {"5.2", "5.3", "JIT"},
     contextualGoto       |-> v = "JIT",
     hexEscapes           |-> v \in {"5.2", "5.3"},
     skipWhitespaceEscape |-> v \in {"5.2", "5.3", "JIT"},
     strictEscapes        |-> v \in {"5.2", "5.3", "JIT"},
     unicodeEscapes       |-> v \in {"5.3", "JIT"},
     bitwiseOperators     |-> v = "5.3",
     integerDivision      |-> v = "5.3"]

\* Mutant of versionFeatures: the JIT entry has bitwiseOperators.
versionFeatures_JitBitwise(v) ==
    [labels               |-> v \in {"5.2", "5.3", "JIT"},
     contextualGoto       |-> v = "JIT",
     hexEscapes           |-> v \in {"5.2", "5.3", "JIT"},
     skipWhitespaceEscape |-> v \in {"5.2", "5.3", "JIT"},
     strictEscapes        |-> v \in {"5.2", "5.3", "JIT"},
     unicodeEscapes       |-> v \in {"5.3", "JIT"},
     bitwiseOperators     |-> v \in {"5.3", "JIT"},
     integerDivision      |-> v = "5.3"]

versionFeatures(v) ==
    [labels               |-> v \in {"5.2", "5.3", "JIT"},
     contextualGoto       |-> v = "JIT",
     hexEscapes           |-> v \in {"5.2", "5.3", "JIT"},
     skipWhitespaceEscape |-> v \in {"5.2", "5.3", "JIT"},
     strictEscapes        |-> v \in {"5.2", "5.3", "JIT"},
     unicodeEscapes       |-> v \in {"5.3", "JIT"},
     bitwiseOperators     |-> v = "5.3",
     integerDivision      |-> v = "5.3"]

defaultOptions ==
    [luaVersion |-> "5.1", ignoreShebang |-> TRUE, extendedIdentifiers |-> FALSE,
     const_ |-> FALSE, typeCheck |-> FALSE]

\* const features = { ...versionFeatures[options.luaVersion], ...options.features }
features(opts) ==
    LET vf == versionFeatures(opts.luaVersion)
    IN  [labels               |-> vf.labels,
         contextualGoto       |-> vf.contextualGoto,
         hexEscapes           |-> vf.hexEscapes,
         skipWhitespaceEscape |-> vf.skipWhitespaceEscape,
         strictEscapes        |-> vf.strictEscapes,
         unicodeEscapes       |-> vf.unicodeEscapes,
         bitwiseOperators     |-> vf.bitwiseOperators,
         integerDivision      |-> vf.integerDivision,
         const_               |-> opts.const_,
         typeCheck            |-> opts.typeCheck]

\* ------------------------------------------------------------------------
\* Scan cursor: [index, line, lineStart, tokenStart]
\* ------------------------------------------------------------------------
Cursor(i, l, ls, ts) == [index |-> i, line |-> l, lineStart |-> ls, tokenStart |-> ts]

\* Returns [ok, cur]: whether an end-of-line sequence was consumed.
\* Mutant of consumeEOL: LF CR is not one end of line, only CR LF is.
consumeEOL_OnlyCRLF(s, cur) ==
    LET charCode == charCodeAt(s, cur.index)
        peekCharCode == charCodeAt(s, cur.index + 1)
    IN  IF isLineTerminator(charCode)
        THEN LET i1 == IF 13 = charCode /\ 10 = peekCharCode
                       THEN cur.index + 1 ELSE cur.index
             IN  [ok |-> TRUE,
                  cur |-> [cur EXCEPT !.index = i1 + 1, !.line = cur.line + 1,
                                      !.lineStart = i1 + 1]]
        ELSE [ok |-> FALSE, cur |-> cur]

consumeEOL(s, cur) ==
    LET charCode == charCodeAt(s, cur.index)
        peekCharCode == charCodeAt(s, cur.index + 1)
    IN  IF isLineTerminator(charCode)
        THEN LET i1 == IF (10 = charCode /\ 13 = peekCharCode)
                          \/ (13 = charCode /\ 10 = peekCharCode)
                       THEN cur.index + 1 ELSE cur.index
             IN  [ok |-> TRUE,
                  cur |-> [cur EXCEPT !.index = i1 + 1, !.line = cur.line + 1,
                                      !.lineStart = i1 + 1]]
        ELSE [ok |-> FALSE, cur |-> cur]

RECURSIVE skipWhiteSpace(_, _)
skipWhiteSpace(s, cur0) ==
    Only({IF cur.index < Len(s)
          THEN IF isWhiteSpace(charCodeAt(s, cur.index))
               THEN skipWhiteSpace(s, [cur EXCEPT !.index = cur.index + 1])
               ELSE Only({IF r.ok THEN skipWhiteSpace(s, r.cur) ELSE cur :
                          r \in {consumeEOL(s, cur)}})
          ELSE cur : cur \in {cur0}})

\* ------------------------------------------------------------------------
\* Encoding fixup
\* ------------------------------------------------------------------------
\* A NaN codepoint (parseInt of no digits) fails every comparison.
encodeUTF8(codepoint) ==
    IF codepoint = NaN THEN null
    ELSE IF codepoint < 128 THEN <<codepoint>>
    ELSE IF codepoint < 2048
         THEN <<192 + (codepoint \div 64), 128 + (codepoint % 64)>>
    ELSE IF codepoint < 65536
         THEN <<224 + (codepoint \div 4096), 128 + ((codepoint \div 64) % 64),
                128 + (codepoint % 64)>>
    ELSE IF codepoint < 1114112
         THEN <<240 + (codepoint \div 262144), 128 + ((codepoint \div 4096) % 64),
                128 + ((codepoint \div 64) % 64), 128 + (codepoint % 64)>>
    ELSE null

isHighSurrogate(c) == c >= 55296 /\ c <= 56319

isLowSurrogate(c) == c >= 56320 /\ c <= 57343

\* s.replace(/[\ud800-\udbff][\udc00-\udfff]|[^\x00-\x7f]/g, ...), left to right.
RECURSIVE fixupHighCharacters(_)
fixupHighCharacters(s) ==
    IF s = <<>> THEN <<>>
    ELSE IF Len(s) >= 2 /\ isHighSurrogate(s[1]) /\ isLowSurrogate(s[2])
         THEN encodeUTF8(65536 + ((s[1] % 1024) * 1024) + (s[2] % 1024))
              \o fixupHighCharacters(SubSeq(s, 3, Len(s)))
    ELSE IF s[1] > 127
         THEN encodeUTF8(s[1]) \o fixupHighCharacters(Tail(s))
    ELSE <<s[1]>> \o fixupHighCharacters(Tail(s))

\* ------------------------------------------------------------------------
\* Tokens, errors and the results of a pull
\* ------------------------------------------------------------------------
NoToken ==
    [type |-> 0, value |-> <<>>, line |-> 0, lineStart |-> 0,
     lastLine |-> absent, lastLineStart |-> absent, range |-> <<0, 0>>]

NoError == [kind |-> "none", line |-> 0, lineStart |-> 0, range |-> <<0, 0>>,
            expected |-> <<>>]

\* A token without lastLine/lastLineStart (every kind but StringLiteral).
Tok(type, value, cur, end) ==
    [type |-> type, value |-> value, line |-> cur.line, lineStart |-> cur.lineStart,
     lastLine |-> absent, lastLineStart |-> absent,
     range |-> <<cur.tokenStart, end>>]

\* The structured error record {kind, line, lineStart, range, expected?}.
tokenError(kind, ln, ls, range, expected) ==
    [kind |-> kind, line |-> ln, lineStart |-> ls, range |-> range,
     expected |-> expected]

Yield(tok, cur) == [kind |-> "token", token |-> tok, error |-> NoError, cur |-> cur]

Throw(err, cur) == [kind |-> "error", token |-> NoToken, error |-> err, cur |-> cur]

EndOfStream(cur) == [kind |-> "eof", token |-> NoToken, error |-> NoError, cur |-> cur]

\* The result of a reader: a value, or the error it threw.
Ret(value, cur) == [err |-> NoError, value |-> value, cur |-> cur]

Raise(err, cur) == [err |-> err, value |-> <<>>, cur |-> cur]

\* ------------------------------------------------------------------------
\* Numbers
\* ------------------------------------------------------------------------
RECURSIVE Normalize(_, _, _)
Normalize(m, a, b) ==
    IF m = 0 THEN <<0, 0, 0>>
    ELSE IF m % 2 = 0 THEN Normalize(m \div 2, a + 1, b)
    ELSE IF m % 5 = 0 THEN Normalize(m \div 5, a, b + 1)
    ELSE <<m, a, b>>

NumInt(n) == Normalize(n, 0, 0)

\* Math.pow(2, e), 10^e
NumPow2(e) == <<1, e, 0>>

NumPow10(e) == <<1, e, e>>

\* Math.pow(16, e)
NumPow16(e) == <<1, 4 * e, 0>>

NumAdd(x, y) ==
    LET a0 == Min(x[2], y[2])
        b0 == Min(x[3], y[3])
    IN  Normalize(x[1] * Pow(2, x[2] - a0) * Pow(5, x[3] - b0)
                  + y[1] * Pow(2, y[2] - a0) * Pow(5, y[3] - b0), a0, b0)

NumMul(x, y) == Normalize(x[1] * y[1], x[2] + y[2], x[3] + y[3])

\* x / y for y a power of 2 and 5.
NumDiv(x, y) == Normalize(x[1], x[2] - y[2], x[3] - y[3])

digitValue(c) ==
    IF c >= 48 /\ c <= 57 THEN c - 48
    ELSE IF c >= 97 /\ c <= 102 THEN c - 87
    ELSE c - 55

\* parseInt(str, radix) of a string of digits of the radix; NaN for "".
RECURSIVE parseDigits(_, _, _)
parseDigits(str, radix, acc) ==
    IF str = <<>> THEN acc
    ELSE parseDigits(Tail(str), radix, acc * radix + digitValue(str[1]))

parseInt(str, radix) == IF str = <<>> THEN NaN ELSE parseDigits(str, radix, 0)

RECURSIVE skipDecDigits(_, _)
skipDecDigits(s, i) ==
    IF isDecDigit(charCodeAt(s, i)) THEN skipDecDigits(s, i + 1) ELSE i

RECURSIVE skipHexDigits(_, _)
skipHexDigits(s, i) ==
    IF isHexDigit(charCodeAt(s, i)) THEN skipHexDigits(s, i + 1) ELSE i

\* parseFloat of a numeral digits [. digits] [e [sign] digits] with at least
\* one mantissa digit, as readDecLiteral consumes it.
parseFloat(str) ==
    LET i1 == skipDecDigits(str, 0)
        hasDot == charCodeAt(str, i1) = 46
        f0 == IF hasDot THEN i1 + 1 ELSE i1
        f1 == skipDecDigits(str, f0)
        mant == slice(str, 0, i1) \o slice(str, f0, f1)
        hasExp == charCodeAt(str, f1) \in {101, 69}
        neg == hasExp /\ charCodeAt(str, f1 + 1) = 45
        e0 == IF ~hasExp THEN f1
              ELSE IF charCodeAt(str, f1 + 1) \in {43, 45} THEN f1 + 2 ELSE f1 + 1
        e1 == skipDecDigits(str, e0)
        ex == IF hasExp THEN parseInt(slice(str, e0, e1), 10) ELSE 0
    IN  NumMul(NumInt(parseInt(mant, 10)),
               NumPow10((IF neg THEN 0 - ex ELSE ex) - (f1 - f0)))

\* ------------------------------------------------------------------------
\* Numeric literals
\* ------------------------------------------------------------------------
readHexLiteral(s, cur) ==
    LET digitStart == cur.index + 2
        i1 == skipHexDigits(s, digitStart)
        digit == NumInt(parseInt(slice(s, digitStart, i1), 16))
        hasFraction == charCodeAt(s, i1) = 46
        fractionStart == i1 + 1
        i2 == IF hasFraction THEN skipHexDigits(s, fractionStart) ELSE i1
        fraction ==
            IF ~hasFraction \/ fractionStart = i2 THEN NumInt(0)
            ELSE NumDiv(NumInt(parseInt(slice(s, fractionStart, i2), 16)),
                        NumPow16(i2 - fractionStart))
        hasExponent == charCodeAt(s, i2) \in {112, 80}
        hasSign == charCodeAt(s, i2 + 1) \in {43, 45}
        binarySign == IF hasSign /\ charCodeAt(s, i2 + 1) = 45 THEN 0 - 1 ELSE 1
        exponentStart == IF hasSign THEN i2 + 2 ELSE i2 + 1
        i3 == skipDecDigits(s, exponentStart)
        binaryExponent ==
            IF hasExponent
            THEN NumPow2(parseInt(slice(s, exponentStart, i3), 10) * binarySign)
            ELSE NumInt(1)
    IN  IF ~isHexDigit(charCodeAt(s, digitStart))
        THEN Raise(tokenError("malformedNumber", cur.line, cur.lineStart,
                              <<cur.tokenStart, digitStart>>, <<>>),
                   [cur EXCEPT !.index = digitStart])
        ELSE IF hasExponent /\ ~isDecDigit(charCodeAt(s, exponentStart))
        THEN Raise(tokenError("malformedNumber", cur.line, cur.lineStart,
                              <<cur.tokenStart, exponentStart + 1>>, <<>>),
                   [cur EXCEPT !.index = exponentStart])
        ELSE Ret(NumMul(NumAdd(digit, fraction), binaryExponent),
                 [cur EXCEPT !.index = IF hasExponent THEN i3 ELSE i2])

readDecLiteral(s, cur) ==
    LET i1 == skipDecDigits(s, cur.index)
        i2 == IF charCodeAt(s, i1) = 46 THEN skipDecDigits(s, i1 + 1) ELSE i1
        hasExponent == charCodeAt(s, i2) \in {101, 69}
        exponentStart == IF charCodeAt(s, i2 + 1) \in {43, 45} THEN i2 + 2 ELSE i2 + 1
        i3 == skipDecDigits(s, exponentStart)
    IN  IF hasExponent /\ ~isDecDigit(charCodeAt(s, exponentStart))
        THEN Raise(tokenError("malformedNumber", cur.line, cur.lineStart,
                              <<cur.tokenStart, exponentStart + 1>>, <<>>),
                   [cur EXCEPT !.index = exponentStart])
        ELSE LET end == IF hasExponent THEN i3 ELSE i2
             IN  Ret(parseFloat(slice(s, cur.tokenStart, end)),
                     [cur EXCEPT !.index = end])

scanNumericLiteral(s, cur) ==
    LET character == charCodeAt(s, cur.index)
        next == charCodeAt(s, cur.index + 1)
        r == IF 48 = character /\ next \in {120, 88}
             THEN readHexLiteral(s, cur)
             ELSE readDecLiteral(s, cur)
    IN  IF r.err.kind # "none" THEN Throw(r.err, r.cur)
        ELSE Yield(Tok(NumericLiteral, r.value, r.cur, r.cur.index), r.cur)

\* ------------------------------------------------------------------------
\* Escape sequences
\* ------------------------------------------------------------------------
readUnicodeEscapeSequence(s, cur) ==
    LET sequenceStart == cur.index
        i0 == sequenceStart + 2
        RECURSIVE skipZeros(_)
        skipZeros(i) == IF charCodeAt(s, i) = 48 THEN skipZeros(i + 1) ELSE i
        escStart == skipZeros(i0)
        hexEnd == skipHexDigits(s, escStart)
        b == charCodeAt(s, hexEnd)
        after == hexEnd + 1
        codepoint_int == parseInt(slice(s, escStart, after - 1), 16)
        codepoint == encodeUTF8(codepoint_int)
        at(i) == [cur EXCEPT !.index = i]
    IN  IF charCodeAt(s, sequenceStart + 1) # 123
        THEN Raise(tokenError("missingInEscape", cur.line, cur.lineStart,
                              <<sequenceStart + 1, sequenceStart + 2>>, <<123>>), at(i0))
        ELSE IF ~isHexDigit(charCodeAt(s, i0))
        THEN Raise(tokenError("hexDigitExpected", cur.line, cur.lineStart,
                              <<i0, i0 + 1>>, <<>>), at(i0))
        ELSE IF hexEnd - escStart > 6
        THEN Raise(tokenError("tooLargeCodepoint", cur.line, cur.lineStart,
                              <<escStart, escStart + 7>>, <<>>), at(escStart + 7))
        ELSE IF b # 125
        THEN IF b = 34 \/ b = 39
             THEN Raise(tokenError("missingInEscape", cur.line, cur.lineStart,
                                   <<sequenceStart, after - 1>>, <<125>>), at(after))
             ELSE Raise(tokenError("hexDigitExpected", cur.line, cur.lineStart,
                                   <<after - 1, after>>, <<>>), at(after))
        ELSE IF codepoint = null
        THEN Raise(tokenError("tooLargeCodepoint", cur.line, cur.lineStart,
                              <<sequenceStart + 2, after - 1>>, <<>>), at(after))
        ELSE Ret(codepoint, at(after))

\* The switch of readEscapeSequence with its fall-through chain
\* z -> x -> u -> default -> literal, as an ordered sequence of guards.
readEscapeSequence(s, feat, cur) ==
    LET sequenceStart == cur.index
        c == charCodeAt(s, cur.index)
        step == [cur EXCEPT !.index = cur.index + 1]
        RECURSIVE skipDdd(_)
        skipDdd(i) ==
            IF isDecDigit(charCodeAt(s, i)) /\ i - sequenceStart < 3
            THEN skipDdd(i + 1) ELSE i
        dddEnd == skipDdd(cur.index)
        ddd == parseInt(slice(s, sequenceStart, dddEnd), 10)
        non_hex == IF isHexDigit(charCodeAt(s, cur.index + 1))
                   THEN cur.index + 2 ELSE cur.index + 1
    IN  IF c = 97 THEN Ret(<<7>>, step)
        ELSE IF c = 110 THEN Ret(<<10>>, step)
        ELSE IF c = 114 THEN Ret(<<13>>, step)
        ELSE IF c = 116 THEN Ret(<<9>>, step)
        ELSE IF c = 118 THEN Ret(<<11>>, step)
        ELSE IF c = 98 THEN Ret(<<8>>, step)
        ELSE IF c = 102 THEN Ret(<<12>>, step)
        ELSE IF c = 13 \/ c = 10 THEN Ret(<<10>>, consumeEOL(s, cur).cur)
        ELSE IF isDecDigit(c)
        THEN IF ddd > 255
             THEN Raise(tokenError("decimalEscapeTooLarge", cur.line, cur.lineStart,
                                   <<sequenceStart, dddEnd>>, <<>>),
                        [cur EXCEPT !.index = dddEnd])
             ELSE Ret(<<ddd>>, [cur EXCEPT !.index = dddEnd])
        ELSE IF c = 122 /\ feat.skipWhitespaceEscape
        THEN Ret(<<>>, skipWhiteSpace(s, step))
        ELSE IF c \in {122, 120} /\ feat.hexEscapes
        THEN IF isHexDigit(charCodeAt(s, cur.index + 1))
                /\ isHexDigit(charCodeAt(s, cur.index + 2))
             THEN Ret(<<parseInt(slice(s, sequenceStart + 1, cur.index + 3), 16)>>,
                      [cur EXCEPT !.index = cur.index + 3])
             ELSE Raise(tokenError("hexDigitExpected", cur.line, cur.lineStart,
                                   <<non_hex, non_hex + 1>>, <<>>), cur)
        ELSE IF c \in {122, 120, 117} /\ feat.unicodeEscapes
        THEN readUnicodeEscapeSequence(s, cur)
        ELSE IF c \notin {92, 34, 39} /\ feat.strictEscapes
        THEN Raise(tokenError("invalidEscape", cur.line, cur.lineStart,
                              <<sequenceStart, sequenceStart + 1>>, <<>>), cur)
        ELSE Ret(charAt(s, cur.index), step)

\* ------------------------------------------------------------------------
\* Short strings
\* ------------------------------------------------------------------------
\* The statements after the while loop of scanStringLiteral.
finishStringLiteral(s, begin, cur, stringStart, string) ==
    Yield([type |-> StringLiteral,
           value |-> string \o fixupHighCharacters(slice(s, stringStart, cur.index - 1)),
           line |-> begin.line, lineStart |-> begin.lineStart,
           lastLine |-> cur.line, lastLineStart |-> cur.lineStart,
           range |-> <<cur.tokenStart, cur.index>>], cur)

\* The while loop of scanStringLiteral, from its test.
RECURSIVE scanStringLoop(_, _, _, _, _, _, _)
scanStringLoop(s, feat, delimiter, begin, cur0, stringStart0, string0) ==
    Only({
    IF ~(cur.index < Len(s))
    THEN finishStringLiteral(s, begin, cur, stringStart, string)
    ELSE
    LET charCode == charCodeAt(s, cur.index)
        c1 == [cur EXCEPT !.index = cur.index + 1]
        unfinished(c, ss) ==
            Throw(tokenError("unfinishedString", begin.line, begin.lineStart,
                             <<ss - 1, c.index - 1>>, <<>>), c)
    IN  IF delimiter = charCode
        THEN finishStringLiteral(s, begin, c1, stringStart, string)
        ELSE IF 92 = charCode
        THEN LET r == readEscapeSequence(s, feat, c1)
                 string2 == string
                            \o fixupHighCharacters(slice(s, stringStart, c1.index - 1))
                            \o r.value
             IN  IF r.err.kind # "none" THEN Throw(r.err, r.cur)
                 ELSE IF r.cur.index >= Len(s)
                 THEN unfinished(r.cur, r.cur.index)
                 ELSE scanStringLoop(s, feat, delimiter, begin, r.cur,
                                     r.cur.index, string2)
        ELSE IF c1.index >= Len(s) \/ isLineTerminator(charCode)
        THEN unfinished(c1, stringStart)
        ELSE scanStringLoop(s, feat, delimiter, begin, c1, stringStart, string)
    : cur \in {cur0}, stringStart \in {stringStart0}, string \in {string0}})

scanStringLiteral(s, feat, cur) ==
    LET delimiter == charCodeAt(s, cur.index)
        c1 == [cur EXCEPT !.index = cur.index + 1]
    IN  scanStringLoop(s, feat, delimiter, cur, c1, c1.index, <<>>)

\* ------------------------------------------------------------------------
\* Long strings and comments
\* ------------------------------------------------------------------------
\* Mutant of isLongTerminator: the = between the brackets are not compared.
isLongTerminator_AnyLevel(s, i, level) == 93 = charCodeAt(s, i + level)

\* After a ]: the next `level` units are = and the one after them is ].
isLongTerminator(s, i, level) ==
    /\ \A k \in 0..(level - 1) : 61 = charCodeAt(s, i + k)
    /\ 93 = charCodeAt(s, i + level)

\* Mutant of afterLongTerminator: the last ] is left unconsumed.
afterLongTerminator_OneShort(cur, level) == [cur EXCEPT !.index = cur.index + level]

\* index += level + 1
afterLongTerminator(cur, level) == [cur EXCEPT !.index = cur.index + level + 1]

readLongString(s, cur, isComment) ==
    LET from == cur.index
        RECURSIVE countLevel(_)
        countLevel(n) == IF charCodeAt(s, from + 1 + n) = 61 THEN countLevel(n + 1) ELSE n
        level == countLevel(0)
        opened == [cur EXCEPT !.index = from + 1 + level + 1]
        c0 == IF isLineTerminator(charCodeAt(s, opened.index))
              THEN consumeEOL(s, opened).cur ELSE opened
        stringStart == c0.index
        RECURSIVE eatEOLs(_)
        eatEOLs(c0_) ==
            Only({IF isLineTerminator(charCodeAt(s, c.index))
                  THEN eatEOLs(consumeEOL(s, c).cur) ELSE c : c \in {c0_}})
        RECURSIVE loop(_)
        loop(c0_) ==
            Only({
            IF ~(c.index < Len(s))
            THEN Raise(tokenError(IF isComment THEN "unfinishedLongComment"
                                               ELSE "unfinishedLongString",
                                  cur.line, cur.lineStart,
                                  <<from, from + level + 1>>, <<>>), c)
            ELSE LET c1 == eatEOLs(c)
                     character == charCodeAt(s, c1.index)
                     c2 == [c1 EXCEPT !.index = c1.index + 1]
                 IN  IF 93 = character /\ isLongTerminator(s, c2.index, level)
                     THEN Ret(slice(s, stringStart, c2.index - 1),
                              afterLongTerminator(c2, level))
                     ELSE loop(c2)
            : c \in {c0_}})
    IN  IF charCodeAt(s, from + 1 + level) # 91
        THEN Ret(null, [cur EXCEPT !.index = from + 1])
        ELSE loop(c0)

scanLongStringLiteral(s, cur) ==
    LET r == readLongString(s, cur, FALSE)
        RECURSIVE skipEquals(_)
        skipEquals(i) == IF charCodeAt(s, i) = 61 THEN skipEquals(i + 1) ELSE i
        delim == skipEquals(r.cur.index)
    IN  IF r.err.kind # "none" THEN Throw(r.err, r.cur)
        ELSE IF r.value = null
        THEN Throw(tokenError("invalidDelimiter", cur.line, cur.lineStart,
                              <<delim, delim + 1>>, <<>>), r.cur)
        ELSE Yield([type |-> StringLiteral, value |-> fixupHighCharacters(r.value),
                    line |-> cur.line, lineStart |-> cur.lineStart,
                    lastLine |-> r.cur.line, lastLineStart |-> r.cur.lineStart,
                    range |-> <<cur.tokenStart, r.cur.index>>], r.cur)

\* Returns the reader's result; its value (the comment's content) is unused.
scanComment(s, cur) ==
    LET c0 == [cur EXCEPT !.tokenStart = cur.index, !.index = cur.index + 2]
        r == IF charCodeAt(s, c0.index) = 91 THEN readLongString(s, c0, TRUE)
             ELSE Ret(null, c0)
        RECURSIVE toEOL(_)
        toEOL(i) == IF i < Len(s) /\ ~isLineTerminator(charCodeAt(s, i))
                    THEN toEOL(i + 1) ELSE i
    IN  IF r.err.kind # "none" THEN r
        ELSE IF r.value = null
        THEN Ret(<<>>, [r.cur EXCEPT !.index = toEOL(r.cur.index)])
        ELSE r

\* ------------------------------------------------------------------------
\* Identifiers and keywords
\* ------------------------------------------------------------------------
baseKeywords ==
    {
     <<100, 111>>,                                      \* do
     <<105, 102>>,                                      \* if
     <<105, 110>>,                                      \* in
     <<111, 114>>,                                      \* or
     <<97, 110, 100>>,                                  \* and
     <<101, 110, 100>>,                                 \* end
     <<102, 111, 114>>,                                 \* for
     <<110, 111, 116>>,                                 \* not
     <<101, 108, 115, 101>>,                            \* else
     <<116, 104, 101, 110>>,                            \* then
     <<98, 114, 101, 97, 107>>,                         \* break
     <<108, 111, 99, 97, 108>>,                         \* local
     <<117, 110, 116, 105, 108>>,                       \* until
     <<119, 104, 105, 108, 101>>,                       \* while
     <<101, 108, 115, 101, 105, 102>>,                  \* elseif
     <<114, 101, 112, 101, 97, 116>>,                   \* repeat
     <<114, 101, 116, 117, 114, 110>>,                  \* return
     <<102, 117, 110, 99, 116, 105, 111, 110>>          \* function
    }

kw_goto == <<103, 111, 116, 111>>

kw_declare == <<100, 101, 99, 108, 97, 114, 101>>

kw_const == <<99, 111, 110, 115, 116>>

str_true == <<116, 114, 117, 101>>

str_false == <<102, 97, 108, 115, 101>>

str_nil == <<110, 105, 108>>

\* The decoded values true and false of a BooleanLiteral.
JsTrue == <<1>>

JsFalse == <<0>>

\* Mutant of keywords: goto is added whenever labels are enabled.
keywords_GotoWithLabels(feat) ==
    baseKeywords
    \cup (IF feat.labels THEN {kw_goto} ELSE {})
    \cup (IF feat.typeCheck THEN {kw_declare} ELSE {})
    \cup (IF feat.const_ THEN {kw_const} ELSE {})

keywords(feat) ==
    baseKeywords
    \cup (IF feat.labels /\ ~feat.contextualGoto THEN {kw_goto} ELSE {})
    \cup (IF feat.typeCheck THEN {kw_declare} ELSE {})
    \cup (IF feat.const_ THEN {kw_const} ELSE {})

isKeyword(feat, id) == id \in keywords(feat)

scanIdentifierOrKeyword(s, opts, cur) ==
    LET RECURSIVE skipPart(_)
        skipPart(i) == IF isIdentifierPart(opts, charCodeAt(s, i))
                       THEN skipPart(i + 1) ELSE i
        end == skipPart(cur.index + 1)
        value == fixupHighCharacters(slice(s, cur.tokenStart, end))
        c1 == [cur EXCEPT !.index = end]
    IN  IF isKeyword(features(opts), value) THEN Yield(Tok(Keyword, value, c1, end), c1)
        ELSE IF str_true = value \/ str_false = value
        THEN Yield(Tok(BooleanLiteral, IF value = str_true THEN JsTrue ELSE JsFalse,
                       c1, end), c1)
        ELSE IF str_nil = value THEN Yield(Tok(NilLiteral, null, c1, end), c1)
        ELSE Yield(Tok(Identifier, value, c1, end), c1)

\* ------------------------------------------------------------------------
\* Punctuators
\* ------------------------------------------------------------------------
scanPunctuator(value, cur) ==
    LET c1 == [cur EXCEPT !.index = cur.index + Len(value)]
    IN  Yield(Tok(Punctuator, value, c1, c1.index), c1)

scanVarargLiteral(cur) ==
    LET c1 == [cur EXCEPT !.index = cur.index + 3]
    IN  Yield(Tok(VarargLiteral, <<46, 46, 46>>, c1, c1.index), c1)

\* * ^ % , { } ] ( ) ; # - + |
singlePunctuators == {42, 94, 37, 44, 123, 125, 93, 40, 41, 59, 35, 45, 43, 124}

\* ------------------------------------------------------------------------
\* lex
\* ------------------------------------------------------------------------
\* while (45 === charCodeAt(index) && 45 === charCodeAt(index + 1))
\*     { scanComment(); skipWhiteSpace(); }
RECURSIVE skipComments(_, _)
skipComments(s, cur0) ==
    Only({IF 45 = charCodeAt(s, cur.index) /\ 45 = charCodeAt(s, cur.index + 1)
          THEN Only({IF r.err.kind # "none" THEN r
                     ELSE skipComments(s, skipWhiteSpace(s, r.cur)) :
                     r \in {scanComment(s, cur)}})
          ELSE Ret(<<>>, cur) : cur \in {cur0}})

\* Mutant of memorizeTokenStart: lex keeps the token start of the comment or
\* of the token before.
memorizeTokenStart_Stale(cur) == cur

\* The token start lex memorizes before it dispatches.
memorizeTokenStart(cur) == [cur EXCEPT !.tokenStart = cur.index]

\* The switch of lex on charCode, after the identifier test.
dispatch(s, opts, cur) ==
    LET feat == features(opts)
        charCode == charCodeAt(s, cur.index)
        next == charCodeAt(s, cur.index + 1)
    IN  IF isIdentifierStart(opts, charCode) THEN scanIdentifierOrKeyword(s, opts, cur)
        ELSE IF charCode = 39 \/ charCode = 34 THEN scanStringLiteral(s, feat, cur)
        ELSE IF charCode >= 48 /\ charCode <= 57 THEN scanNumericLiteral(s, cur)
        ELSE IF charCode = 46
        THEN IF isDecDigit(next) THEN scanNumericLiteral(s, cur)
             ELSE IF 46 = next
             THEN IF 46 = charCodeAt(s, cur.index + 2) THEN scanVarargLiteral(cur)
                  ELSE scanPunctuator(<<46, 46>>, cur)
             ELSE scanPunctuator(<<46>>, cur)
        ELSE IF charCode = 61
        THEN IF 61 = next THEN scanPunctuator(<<61, 61>>, cur)
             ELSE IF 62 = next THEN scanPunctuator(<<61, 62>>, cur)
             ELSE scanPunctuator(<<61>>, cur)
        ELSE IF charCode = 62
        THEN IF feat.bitwiseOperators /\ 62 = next THEN scanPunctuator(<<62, 62>>, cur)
             ELSE IF 61 = next THEN scanPunctuator(<<62, 61>>, cur)
             ELSE scanPunctuator(<<62>>, cur)
        ELSE IF charCode = 60
        THEN IF feat.bitwiseOperators /\ 60 = next THEN scanPunctuator(<<60, 60>>, cur)
             ELSE IF 61 = next THEN scanPunctuator(<<60, 61>>, cur)
             ELSE scanPunctuator(<<60>>, cur)
        ELSE IF charCode = 126 /\ 61 = next THEN scanPunctuator(<<126, 61>>, cur)
        ELSE IF charCode = 126 /\ feat.bitwiseOperators THEN scanPunctuator(<<126>>, cur)
        ELSE IF charCode = 58
        THEN IF feat.labels /\ 58 = next THEN scanPunctuator(<<58, 58>>, cur)
             ELSE scanPunctuator(<<58>>, cur)
        ELSE IF charCode = 91
        THEN IF 91 = next \/ 61 = next THEN scanLongStringLiteral(s, cur)
             ELSE scanPunctuator(<<91>>, cur)
        ELSE IF charCode = 47
        THEN IF feat.integerDivision /\ 47 = next THEN scanPunctuator(<<47, 47>>, cur)
             ELSE scanPunctuator(<<47>>, cur)
        ELSE IF (charCode = 38 /\ feat.bitwiseOperators) \/ charCode \in singlePunctuators
        THEN scanPunctuator(charAt(s, cur.index), cur)
        ELSE Throw(tokenError("unexpectedSymbol", cur.line, cur.lineStart,
                              <<cur.index, cur.index + 1>>, <<>>), cur)

lex(s, opts, cur) ==
    Only({IF r.err.kind # "none" THEN Throw(r.err, r.cur)
          ELSE IF r.cur.index >= Len(s) THEN EndOfStream(r.cur)
          ELSE Only({dispatch(s, opts, c) : c \in {memorizeTokenStart(r.cur)}}) :
          r \in {skipComments(s, skipWhiteSpace(s, cur))}})

\* ------------------------------------------------------------------------
\* The generator
\* ------------------------------------------------------------------------
cursor == Cursor(index, line, lineStart, tokenStart)

\* options.ignoreShebang && input.substr(0, 2) === "#!"
skipsShebang(s, opts) == opts.ignoreShebang /\ slice(s, 0, 2) = <<35, 33>>

Begin ==
    /\ pc = "start"
    /\ pc' = IF skipsShebang(input, options) THEN "shebang" ELSE "lex"
    /\ UNCHANGED <<input, options, index, line, lineStart, tokenStart, token, error>>

\* The largest value the scan index takes in this model.  In the source the
\* index is a double: index++ stops changing it at 2^53.
MaxIndex == 16

\* One iteration of  while (!consumeEOL()) index++;
ShebangStep ==
    /\ pc = "shebang"
    /\ \E r \in {consumeEOL(input, cursor)} :
           IF r.ok
           THEN /\ pc' = "lex"
                /\ index' = r.cur.index
                /\ line' = r.cur.line
                /\ lineStart' = r.cur.lineStart
           ELSE /\ pc' = "shebang"
                /\ index' = IF index < MaxIndex THEN index + 1 ELSE index
                /\ UNCHANGED <<line, lineStart>>
    /\ UNCHANGED <<input, options, tokenStart, token, error>>

\* One pull of the consumer: const token = lex(); yield, return or throw.
Pull ==
    /\ pc = "lex"
    /\ \E r \in {lex(input, options, cursor)} :
           /\ index' = r.cur.index
           /\ line' = r.cur.line
           /\ lineStart' = r.cur.lineStart
           /\ tokenStart' = r.cur.tokenStart
           /\ token' = r.token
           /\ error' = r.error
           /\ pc' = IF r.kind = "token" THEN "lex"
                    ELSE IF r.kind = "eof" THEN "done" ELSE "error"
    /\ UNCHANGED <<input, options>>

Next == Begin \/ ShebangStep \/ Pull

\* The generator run as a function, up to its first pull: the shebang loop,
\* which never ends once the index is past the last line terminator, and lex.
RECURSIVE shebangLoop(_, _)
shebangLoop(s, cur0) ==
    Only({Only({IF r.ok THEN [hangs |-> FALSE, cur |-> r.cur]
                ELSE IF cur.index >= Len(s) THEN [hangs |-> TRUE, cur |-> cur]
                ELSE shebangLoop(s, [cur EXCEPT !.index = cur.index + 1]) :
                r \in {consumeEOL(s, cur)}}) : cur \in {cur0}})

Hang(cur) == [kind |-> "hang", token |-> NoToken, error |-> NoError, cur |-> cur]

firstPull(s, opts) ==
    LET new == Cursor(0, 1, 0, absent)
        st == IF skipsShebang(s, opts) THEN shebangLoop(s, new)
              ELSE [hangs |-> FALSE, cur |-> new]
    IN  IF st.hangs THEN Hang(st.cur) ELSE lex(s, opts, st.cur)

\* The state of a new generator over the input s with the options opts.
Start(s, opts) ==
    /\ input = s
    /\ options = opts
    /\ index = 0
    /\ line = 1
    /\ lineStart = 0
    /\ tokenStart = absent
    /\ pc = "start"
    /\ token = NoToken
    /\ error = NoError

\* ------------------------------------------------------------------------
\* Inputs
\* ------------------------------------------------------------------------
\* Every string over the alphabet A of at most n code units.
SeqsUpTo(A, n) == UNION {[1..k -> A] : k \in 0..n}

\* #! and a line feed: a shebang line, which tokenize skips by default.
ShebangLine == <<35, 33, 10>>

\* The inputs of S, and those of T after a shebang line.
WithShebang(S, T) == S \cup {ShebangLine \o s : s \in T}

StartsWithShebangLine(s) == Len(s) >= 3 /\ SubSeq(s, 1, 3) = ShebangLine

OptionsOf(versions, shebangs) ==
    {[defaultOptions EXCEPT !.luaVersion = v, !.ignoreShebang = b] :
        v \in versions, b \in shebangs}

\* ------------------------------------------------------------------------
\* Shebang lines: termination (C1)
\* ------------------------------------------------------------------------
MaxShebangLen == 4

\* # ! LF CR a space
ShebangAlphabet == {35, 33, 10, 13, 97, 32}

ShebangInputs ==
    {s \in SeqsUpTo(ShebangAlphabet, MaxShebangLen) : Len(s) >= 1 => s[1] = 35}

InitShebang ==
    \E s \in ShebangInputs, o \in OptionsOf({"5.1", "5.3"}, BOOLEAN) : Start(s, o)

\* The consumer keeps pulling and the generator keeps running.
FairSpec == InitShebang /\ [][Next]_vars /\ WF_vars(Next)

Terminated == pc \in {"done", "error"}

\* C1: for every input and configuration tokenize ends after finitely many
\* steps, normally at end of input or with a lexical error; also for an input
\* that starts with #! and holds no line terminator when ignoreShebang is true.
C1_Terminates == <>Terminated

\* ------------------------------------------------------------------------
\* Short strings: unfinished strings (C2)
\* ------------------------------------------------------------------------
MaxStrLen == 4

\* " ' \ LF CR g n
StrAlphabet == {34, 39, 92, 10, 13, 103, 110}

StrInputs == WithShebang(SeqsUpTo(StrAlphabet, MaxStrLen), SeqsUpTo(StrAlphabet, 1))

InitStr == \E s \in StrInputs, o \in OptionsOf({"5.1", "5.2"}, {TRUE}) : Start(s, o)

SpecStr == InitStr /\ [][Next]_vars

\* The token of the last pull is the StringLiteral of a short string.
IsShortString ==
    /\ token.type = StringLiteral
    /\ charCodeAt(input, token.range[1]) \in {34, 39}

\* From..to holds the opening delimiter and, as its last unit, a closing
\* delimiter that matches it.
HasClosingDelimiter(from, to) ==
    /\ to - from >= 2
    /\ to <= Len(input)
    /\ charCodeAt(input, to - 1) = charCodeAt(input, from)

\* C2: when the input ends (or an unescaped line terminator occurs) before a
\* closing delimiter that matches the opening ' or ", no StringLiteral is
\* emitted for that string: every short-string token ends with the closing
\* delimiter; also when the opening delimiter is the last unit of the input.
C2_NoTokenForUnfinishedString ==
    IsShortString => HasClosingDelimiter(token.range[1], token.range[2])

\* What the code does keep: a short string is emitted unclosed only when its
\* opening delimiter is the last code unit of the input.
C2_OnlyAtEndOfInput ==
    IsShortString =>
        \/ HasClosingDelimiter(token.range[1], token.range[2])
        \/ (token.range[1] = Len(input) - 1 /\ token.range[2] = Len(input)
            /\ token.value = <<>>)

\* ------------------------------------------------------------------------
\* Hexadecimal numerals (C3)
\* ------------------------------------------------------------------------
MaxIntDigits == 2

MaxFracDigits == 1

MaxExpDigits == 1

\* 0 1 8 f
HexDigitAlphabet == {48, 49, 56, 102}

\* 0 1 4
ExpDigitAlphabet == {48, 49, 52}

\* no fraction, or . and the fraction digits
HexFractions == {<<>>} \cup {<<46>> \o f : f \in SeqsUpTo(HexDigitAlphabet, MaxFracDigits)}

\* no exponent, or p, an optional sign and at least one decimal digit
HexExponents ==
    {<<>>} \cup {<<112>> \o sg \o e : sg \in {<<>>, <<43>>, <<45>>},
                                     e \in SeqsUpTo(ExpDigitAlphabet, MaxExpDigits) \ {<<>>}}

\* 0x, the integer digit run (which may be empty, as in 0x.8p0), the fraction
\* and the exponent
HexNumerals ==
    {<<48, 120>> \o d \o f \o e :
        d \in SeqsUpTo(HexDigitAlphabet, MaxIntDigits), f \in HexFractions,
        e \in HexExponents}

HexInputs ==
    WithShebang(HexNumerals, {<<48, 120>> \o d : d \in SeqsUpTo(HexDigitAlphabet, 1)})

InitHex == \E s \in HexInputs, o \in OptionsOf({"5.1"}, {TRUE}) : Start(s, o)

SpecHex == InitHex /\ [][Next]_vars

\* The numeral of the input: the input after its shebang line.
NumeralStart == IF StartsWithShebangLine(input) THEN 3 ELSE 0

Numeral == slice(input, NumeralStart, Len(input))

\* The place of the first c in text, or Len(text) + 1.
PlaceOf(text, c) ==
    IF \E i \in 1..Len(text) : text[i] = c
    THEN CHOOSE i \in 1..Len(text) : text[i] = c /\ \A j \in 1..(i - 1) : text[j] # c
    ELSE Len(text) + 1

\* The parts of the numeral 0x D [. F] [p [sign] E] as it is written.
DigitRun == SubSeq(Numeral, 3, Min(PlaceOf(Numeral, 46), PlaceOf(Numeral, 112)) - 1)

FractionRun == SubSeq(Numeral, PlaceOf(Numeral, 46) + 1, PlaceOf(Numeral, 112) - 1)

ExponentSign ==
    IF charCodeAt(Numeral, PlaceOf(Numeral, 112)) = 45 THEN 0 - 1 ELSE 1

ExponentRun ==
    LET p == PlaceOf(Numeral, 112)
        from == IF charCodeAt(Numeral, p) \in {43, 45} THEN p + 2 ELSE p + 1
    IN  SubSeq(Numeral, from, Len(Numeral))

HexDigitValue(c) ==
    CASE c \in 48..57 -> c - 48
      [] c \in 97..102 -> c - 97 + 10
      [] c \in 65..70 -> c - 65 + 10

\* The value of a run of digits in a base, most significant first; 0 if empty.
RECURSIVE RunValue(_, _)
RunValue(run, base) ==
    IF run = <<>> THEN 0
    ELSE base * RunValue(SubSeq(run, 1, Len(run) - 1), base)
         + HexDigitValue(run[Len(run)])

\* num is the number n * 2^k
IsTimesPow2(num, n, k) == num = Normalize(n, k, 0)

\* The token value is (Digit + Fraction) * 2^(sign * exponent), that is
\* (Digit * 16^count + hexValue(fractionDigits)) * 2^(sign * exponent - 4 * count).
ValueIsHexFormula ==
    IsTimesPow2(token.value,
                RunValue(DigitRun, 16) * Pow(16, Len(FractionRun))
                    + RunValue(FractionRun, 16),
                ExponentSign * RunValue(ExponentRun, 10) - 4 * Len(FractionRun))

IsWholeNumeral ==
    /\ token.type = NumericLiteral
    /\ token.range = <<NumeralStart, Len(input)>>

\* C3, as claimed: the numeral decodes to (Digit + Fraction) * 2^(sign *
\* exponent) for every (digit, fraction, exponent) triple, 0x.8p0 (no integer
\* digit, value 0.5) included: no pull raises an error and the token of the
\* first pull is the whole numeral with the value of the formula.
C3_EveryTripleDecodes ==
    DigitRun # <<>> \/ FractionRun # <<>> =>
        /\ pc # "error"
        /\ token.type # 0 => IsWholeNumeral /\ ValueIsHexFormula

\* What the code does keep: a numeral with at least one integer hex digit
\* decodes to (Digit + Fraction) * 2^(sign * exponent); a numeral with no
\* integer digit (0x.8p0) raises malformedNumber.
C3_HexValue ==
    /\ pc = "error" => DigitRun = <<>> /\ error.kind = "malformedNumber"
    /\ pc = "done" => DigitRun # <<>>
    /\ token.type # 0 => DigitRun # <<>> /\ IsWholeNumeral /\ ValueIsHexFormula

\* 0x1.8p1 has been decoded to 3.
C3_Witness ==
    /\ input = <<48, 120, 49, 46, 56, 112, 49>>
    /\ token.type = NumericLiteral
    /\ token.value = <<3, 0, 0>>

\* ------------------------------------------------------------------------
\* Codepoint escapes (C4)
\* ------------------------------------------------------------------------
MaxCodeDigits == 7

\* 0 1 F
CodeDigitAlphabet == {48, 49, 70}

\* "\u{ D }" for a run D of hex digits
CodepointEscape(d) == <<34, 92, 117, 123>> \o d \o <<125, 34>>

\* "\u{48}\u{49}"
EscapedHI == <<34, 92, 117, 123, 52, 56, 125, 92, 117, 123, 52, 57, 125, 34>>

UniInputs ==
    WithShebang({CodepointEscape(d) : d \in SeqsUpTo(CodeDigitAlphabet, MaxCodeDigits)}
                    \cup {EscapedHI},
                {<<34, 34>>})

InitUni == \E s \in UniInputs, o \in OptionsOf({"5.3", "JIT"}, {TRUE}) : Start(s, o)

SpecUni == InitUni /\ [][Next]_vars

\* The digits between the braces, and those after the leading zeros.
CodeDigits == slice(input, 4, Len(input) - 2)

IsCodepointEscape ==
    /\ Len(input) >= 6
    /\ input = CodepointEscape(CodeDigits)
    /\ \A i \in 1..Len(CodeDigits) : isHexDigit(CodeDigits[i])

RECURSIVE StripZeros(_)
StripZeros(d) == IF d # <<>> /\ d[1] = 48 THEN StripZeros(Tail(d)) ELSE d

SignificantDigits == StripZeros(CodeDigits)

\* bytes is the UTF-8 encoding of the value v <= 0x10FFFF: the payload bits of
\* a lead byte and of its continuation bytes 10xxxxxx give v back, in the
\* shortest form.
IsUTF8Of(bytes, v) ==
    LET cont(i) == bytes[i] - 128
        isCont(i) == bytes[i] \in 128..191
    IN  CASE v < 128 -> bytes = <<v>>
          [] v \in 128..2047 ->
                /\ Len(bytes) = 2 /\ bytes[1] \in 192..223 /\ isCont(2)
                /\ (bytes[1] - 192) * 64 + cont(2) = v
          [] v \in 2048..65535 ->
                /\ Len(bytes) = 3 /\ bytes[1] \in 224..239 /\ isCont(2) /\ isCont(3)
                /\ ((bytes[1] - 224) * 64 + cont(2)) * 64 + cont(3) = v
          [] v \in 65536..1114111 ->
                /\ Len(bytes) = 4 /\ bytes[1] \in 240..247
                /\ isCont(2) /\ isCont(3) /\ isCont(4)
                /\ (((bytes[1] - 240) * 64 + cont(2)) * 64 + cont(3)) * 64 + cont(4) = v

\* The escape of the input is in range: at most 6 significant digits and a
\* value of at most 0x10FFFF.
CodepointInRange ==
    Len(SignificantDigits) <= 6 /\ RunValue(SignificantDigits, 16) <= 1114111

\* The first pull has returned or thrown.
Pulled == pc \in {"done", "error"} \/ token.type # 0

DecodesCodepoint ==
    /\ pc # "error"
    /\ token.type # 0 =>
          /\ token.type = StringLiteral
          /\ token.range = <<0, Len(input)>>
          /\ IsUTF8Of(token.value, RunValue(SignificantDigits, 16))

\* C4: with unicodeEscapes enabled, \u{H...} with at least one hex digit, any
\* number of leading zeros, at most 6 significant digits and a value of at most
\* 0x10FFFF decodes to the UTF-8 bytes of the value, the value 0 included; more
\* than 6 significant digits or a larger value raise tooLargeCodepoint.
C4_CodepointEscape ==
    IsCodepointEscape /\ CodeDigits # <<>> /\ Pulled =>
        IF CodepointInRange THEN DecodesCodepoint
        ELSE pc = "error" /\ error.kind = "tooLargeCodepoint"

\* What the code does keep: the same for every value but 0, which (written
\* with any number of zeros) raises tooLargeCodepoint.
C4_ExceptZero ==
    IsCodepointEscape /\ CodeDigits # <<>> /\ Pulled =>
        IF CodepointInRange /\ SignificantDigits # <<>> THEN DecodesCodepoint
        ELSE pc = "error" /\ error.kind = "tooLargeCodepoint"

\* "\u{48}\u{49}" is "HI".
C4_HI == input = EscapedHI /\ Pulled => pc # "error" /\ (token.type # 0 => token.value = <<72, 73>>)

\* ------------------------------------------------------------------------
\* Whole inputs: ranges and lexemes (C5), re-tokenizing a token (C8)
\* ------------------------------------------------------------------------
MaxFragments == 3

\* The pieces the inputs of Spec are made of.
Fragments ==
    {<<32>>,                \* space
     <<10>>,                \* LF
     <<45, 45>>,            \* --
     <<91, 91>>,            \* [[
     <<93, 93>>,            \* ]]
     <<97>>,                \* a
     <<49>>,                \* 1
     <<46>>,                \* .
     <<61>>,                \* =
     <<34>>,                \* "
     <<92>>,                \* \
     <<48, 120>>,           \* 0x
     <<101>>,               \* e
     <<35, 33>>,            \* #!
     <<100, 111>>,          \* do
     <<110, 105, 108>>,     \* nil
     <<13>>,                \* CR
     <<91, 61, 91>>,        \* [=[
     <<93, 61, 93>>}        \* ]=]

RECURSIVE Concatenations(_)
Concatenations(n) ==
    IF n = 0 THEN {<<>>}
    ELSE LET shorter == Concatenations(n - 1)
         IN  shorter \cup {s \o f : s \in shorter, f \in Fragments}

LexInputs == Concatenations(MaxFragments)

Init == \E s \in LexInputs, o \in OptionsOf({"5.1", "5.3"}, {TRUE}) : Start(s, o)

Spec == Init /\ [][Next]_vars

\* The token of the last pull is not a string: its source text.
IsNonString == token.type \notin {0, StringLiteral}

Lexeme == slice(input, token.range[1], token.range[2])

\* 0-9 a-f A-F x X . p P + -
NumeralUnits ==
    (48..57) \cup (97..102) \cup (65..70) \cup {120, 88, 46, 112, 80, 43, 45}

\* text is written as a numeral: it starts with a digit, or with . and a digit.
IsNumeralText(text) ==
    /\ text # <<>>
    /\ isDecDigit(text[1]) \/ (text[1] = 46 /\ isDecDigit(charCodeAt(text, 1)))
    /\ \A i \in 1..Len(text) : text[i] \in NumeralUnits

\* C5: for every emitted non-string token 0 <= start < end <= input length and
\* the input at [start, end) is the token's lexeme: the token value for
\* Punctuator, Keyword, VarargLiteral and Identifier, true/false/nil for
\* BooleanLiteral/NilLiteral, and the whole consumed numeral (up to the scan
\* cursor) for NumericLiteral, whatever comes before the token.
C5_RangeIsLexeme ==
    IsNonString =>
        /\ 0 <= token.range[1]
        /\ token.range[1] < token.range[2]
        /\ token.range[2] <= Len(input)
        /\ token.range[2] = index
        /\ token.type \in {Punctuator, Keyword, VarargLiteral, Identifier}
              => Lexeme = token.value
        /\ token.type = BooleanLiteral
              => Lexeme = (IF token.value = JsTrue THEN str_true ELSE str_false)
        /\ token.type = NilLiteral => Lexeme = str_nil
        /\ token.type = NumericLiteral => IsNumeralText(Lexeme)

\* A numeral has been emitted after a comment and a line break.
C5_Witness ==
    /\ token.type = NumericLiteral
    /\ token.range[1] >= 3
    /\ slice(input, 0, 3) = <<45, 45, 10>>

\* C8: re-tokenizing, as a standalone input under the same configuration, the
\* source slice at the range of any emitted token yields exactly one token, of
\* the same kind and with the same decoded value.
C8_RoundTrip ==
    token.type # 0 =>
        \E r1 \in {firstPull(slice(input, token.range[1], token.range[2]), options)} :
            /\ r1.kind = "token"
            /\ r1.token.type = token.type
            /\ r1.token.value = token.value
            /\ lex(slice(input, token.range[1], token.range[2]), options, r1.cur).kind
                   = "eof"

\* A long string has been emitted after other text.
C8_Witness ==
    /\ token.type = StringLiteral
    /\ token.range[1] > 0
    /\ charCodeAt(input, token.range[1]) = 91

\* ------------------------------------------------------------------------
\* Hex escapes in short strings (C6)
\* ------------------------------------------------------------------------
MaxEscTail == 3

\* 4 1 F g "
EscTailAlphabet == {52, 49, 70, 103, 34}

\* "\x
EscOpening == <<34, 92, 120>>

EscInputs == {EscOpening \o tl : tl \in SeqsUpTo(EscTailAlphabet, MaxEscTail)}

InitEsc ==
    \E s \in WithShebang(EscInputs, {EscOpening \o <<52, 49, 34>>}),
       o \in OptionsOf(LuaVersions, {TRUE}) : Start(s, o)

SpecEsc == InitEsc /\ [][Next]_vars

IsHexEscapeInput == slice(input, 0, 3) = EscOpening

IsHexUnit(c) == c \in (48..57) \cup (65..70) \cup (97..102)

\* \x is followed by two hex digits.
TwoHexDigits == IsHexUnit(charCodeAt(input, 3)) /\ IsHexUnit(charCodeAt(input, 4))

\* The byte HH.
HexByte == 16 * HexDigitValue(charCodeAt(input, 3)) + HexDigitValue(charCodeAt(input, 4))

HexEscapesEnabled == options.luaVersion \in {"5.2", "5.3", "JIT"}

\* The 0-based places of the " at or after from.
QuotesFrom(from) == {i \in from..(Len(input) - 1) : charCodeAt(input, i) = 34}

FirstQuote(from) == CHOOSE i \in QuotesFrom(from) : \A j \in QuotesFrom(from) : i <= j

IsFirstToken == token.type # 0 /\ token.range[1] = 0

\* The string that opens the input ends at the first " at or after from and
\* decodes to prefix and the units in between; without such a " it is
\* unfinished.  An error after a string that ended is that of a later token.
DecodesTo(prefix, from) ==
    IF QuotesFrom(from) = {}
    THEN pc = "error" /\ error.kind = "unfinishedString"
    ELSE /\ pc = "error" => error.kind = "unfinishedString" /\ tokenStart > FirstQuote(from)
         /\ IsFirstToken =>
               /\ token.type = StringLiteral
               /\ token.value = prefix \o slice(input, from, FirstQuote(from))
               /\ token.range[2] = FirstQuote(from) + 1

\* C6: in a short string \x and two hex digits HH decode to the byte HH where
\* hexEscapes is enabled (5.2, 5.3, JIT), and \x and fewer than two hex digits
\* raise hexDigitExpected there; under 5.1 \x raises no error and yields the
\* literal x and the units that follow, so "\x41" is "x41".
C6_HexEscape ==
    IsHexEscapeInput /\ Pulled =>
        IF HexEscapesEnabled
        THEN IF TwoHexDigits THEN DecodesTo(<<HexByte>>, 5)
             ELSE pc = "error" /\ error.kind = "hexDigitExpected"
        ELSE DecodesTo(<<>>, 2)

\* "\x41" under 5.1 has been emitted as x41.
C6_Witness ==
    /\ options.luaVersion = "5.1"
    /\ input = EscOpening \o <<52, 49, 34>>
    /\ token.type = StringLiteral
    /\ token.value = <<120, 52, 49>>

\* ------------------------------------------------------------------------
\* Long-bracket strings (C7)
\* ------------------------------------------------------------------------
MaxLevel == 2

MaxLongBody == 5

\* ] = a LF CR
LongAlphabet == {93, 61, 97, 10, 13}

\* [ n times = [
LongOpening(n) == <<91>> \o [i \in 1..n |-> 61] \o <<91>>

\* [==[text]==]
LongText == <<91, 61, 61, 91, 116, 101, 120, 116, 93, 61, 61, 93>>

\* [==[text]=]
LongTextUnfinished == <<91, 61, 61, 91, 116, 101, 120, 116, 93, 61, 93>>

LongInputs ==
    {LongOpening(n) \o b : n \in 0..MaxLevel, b \in SeqsUpTo(LongAlphabet, MaxLongBody)}
    \cup {LongText, LongTextUnfinished}

InitLong ==
    \E s \in WithShebang(LongInputs, {LongText}), o \in OptionsOf({"5.1"}, {TRUE}) :
        Start(s, o)

SpecLong == InitLong /\ [][Next]_vars

\* The number of = after the first unit of the input.
RECURSIVE EqualsFrom(_)
EqualsFrom(i) == IF charCodeAt(input, i) = 61 THEN 1 + EqualsFrom(i + 1) ELSE 0

Level == EqualsFrom(1)

IsLongInput == charCodeAt(input, 0) = 91 /\ charCodeAt(input, Level + 1) = 91

IsEOLUnit(c) == c = 10 \/ c = 13

\* The length of the line terminator at i: 0 if there is none, 2 for CR LF and
\* LF CR, else 1.
EOLLength(i) ==
    IF ~IsEOLUnit(charCodeAt(input, i)) THEN 0
    ELSE IF IsEOLUnit(charCodeAt(input, i + 1))
            /\ charCodeAt(input, i + 1) # charCodeAt(input, i) THEN 2
    ELSE 1

\* Where the text of the long string starts.
ContentStart == Level + 2 + EOLLength(Level + 2)

\* At i: ] then exactly Level times = then ].
ClosesAt(i) ==
    /\ charCodeAt(input, i) = 93
    /\ \A k \in 1..Level : charCodeAt(input, i + k) = 61
    /\ charCodeAt(input, i + Level + 1) = 93

Closers == {i \in ContentStart..(Len(input) - 1) : ClosesAt(i)}

FirstCloser == CHOOSE i \in Closers : \A j \in Closers : i <= j

\* C7: a long string opened with [, n times = and [ is closed only by the first
\* ] followed by exactly n times = and then ]; its value is the text between
\* the opening and that closing sequence, minus one line terminator directly
\* after the opening; without a matching closer before the end of the input
\* unfinishedLongString is raised.
C7_LevelMatching ==
    IsLongInput /\ Pulled =>
        IF Closers = {} THEN pc = "error" /\ error.kind = "unfinishedLongString"
        ELSE /\ pc # "error"
             /\ IsFirstToken =>
                   /\ token.type = StringLiteral
                   /\ token.value = slice(input, ContentStart, FirstCloser)
                   /\ token.range[2] = FirstCloser + Level + 2

\* [==[text]==] is "text" and [==[text]=] raises unfinishedLongString.
C7_Examples ==
    /\ input = LongText /\ Pulled =>
          pc # "error" /\ (token.type # 0 => token.value = <<116, 101, 120, 116>>)
    /\ input = LongTextUnfinished /\ Pulled =>
          pc = "error" /\ error.kind = "unfinishedLongString"

\* A long string of level 1 that holds a ] followed by no = has been emitted.
C7_Witness ==
    /\ IsLongInput
    /\ Level = 1
    /\ IsFirstToken
    /\ \E i \in ContentStart..(FirstCloser - 1) :
           charCodeAt(input, i) = 93 /\ charCodeAt(input, i + 1) = 93

\* ------------------------------------------------------------------------
\* Bitwise punctuators (C9)
\* ------------------------------------------------------------------------
MaxPunctLen == 3

\* & ~ < > | =
PunctAlphabet == {38, 126, 60, 62, 124, 61}

PunctInputs == SeqsUpTo(PunctAlphabet, MaxPunctLen)

InitPunct ==
    \E s \in WithShebang(PunctInputs, {<<60, 60>>}), o \in OptionsOf(LuaVersions, {TRUE}) :
        Start(s, o)

SpecPunct == InitPunct /\ [][Next]_vars

Bitwise == options.luaVersion = "5.3"

\* The punctuator that starts with the unit c when the unit n follows.
PunctuatorAt(c, n) ==
    IF c = 126 THEN (IF n = 61 THEN <<126, 61>> ELSE <<126>>)
    ELSE IF c \in {60, 62}
    THEN (IF Bitwise /\ n = c THEN <<c, c>> ELSE IF n = 61 THEN <<c, 61>> ELSE <<c>>)
    ELSE <<c>>

\* The unit at i is a & or a ~ that no = follows.
IsBitwiseOnly(i) ==
    \/ charCodeAt(input, i) = 38
    \/ charCodeAt(input, i) = 126 /\ charCodeAt(input, i + 1) # 61

\* C9: under 5.3 each of & ~ << >> is one Punctuator; under 5.1, 5.2 and JIT a
\* & or a ~ that no = follows raises unexpectedSymbol and << and >> are emitted
\* one < or > at a time; | and ~= are one Punctuator in every dialect.
C9_BitwiseGating ==
    /\ token.type # 0 /\ charCodeAt(input, token.range[1]) \in {38, 126, 60, 62, 124} =>
          /\ token.type = Punctuator
          /\ token.value = PunctuatorAt(charCodeAt(input, token.range[1]),
                                        charCodeAt(input, token.range[1] + 1))
          /\ token.range[2] = token.range[1] + Len(token.value)
          /\ IsBitwiseOnly(token.range[1]) => Bitwise
    /\ pc = "error" =>
          /\ error.kind = "unexpectedSymbol"
          /\ error.range = <<index, index + 1>>
          /\ IsBitwiseOnly(index)
          /\ ~Bitwise
    /\ pc = "done" /\ ~Bitwise => \A i \in 0..(Len(input) - 1) : ~IsBitwiseOnly(i)

\* The second < of << has been emitted on its own under 5.1.
C9_Witness ==
    /\ options.luaVersion = "5.1"
    /\ input = <<60, 60>>
    /\ token.type = Punctuator
    /\ token.range = <<1, 2>>
    /\ token.value = <<60>>

\* ------------------------------------------------------------------------
\* Keywords (C10)
\* ------------------------------------------------------------------------
MaxWords == 2

\* The reserved words of Lua 5.1.
ReservedWords ==
    {<<97, 110, 100>>,                              \* and
     <<98, 114, 101, 97, 107>>,                     \* break
     <<100, 111>>,                                  \* do
     <<101, 108, 115, 101>>,                        \* else
     <<101, 108, 115, 101, 105, 102>>,              \* elseif
     <<101, 110, 100>>,                             \* end
     <<102, 111, 114>>,                             \* for
     <<102, 117, 110, 99, 116, 105, 111, 110>>,     \* function
     <<105, 102>>,                                  \* if
     <<105, 110>>,                                  \* in
     <<108, 111, 99, 97, 108>>,                     \* local
     <<110, 111, 116>>,                             \* not
     <<111, 114>>,                                  \* or
     <<114, 101, 112, 101, 97, 116>>,               \* repeat
     <<114, 101, 116, 117, 114, 110>>,              \* return
     <<116, 104, 101, 110>>,                        \* then
     <<117, 110, 116, 105, 108>>,                   \* until
     <<119, 104, 105, 108, 101>>}                   \* while

\* goto
GotoWord == <<103, 111, 116, 111>>

\* true false nil
LiteralWords == {<<116, 114, 117, 101>>, <<102, 97, 108, 115, 101>>, <<110, 105, 108>>}

\* The words of the inputs: the above, and the names got and x.
Words == ReservedWords \cup {GotoWord} \cup LiteralWords \cup {<<103, 111, 116>>, <<120>>}

\* Up to n words with a space between them.
RECURSIVE Phrases(_)
Phrases(n) ==
    IF n = 0 THEN {<<>>}
    ELSE LET shorter == Phrases(n - 1)
         IN  shorter \cup Words \cup {p \o <<32>> \o w : p \in shorter \ {<<>>}, w \in Words}

WordInputs == Phrases(MaxWords)

InitWords ==
    \E s \in WithShebang(WordInputs, {GotoWord}), o \in OptionsOf(LuaVersions, {TRUE}) :
        Start(s, o)

SpecWords == InitWords /\ [][Next]_vars

\* C10: goto is an Identifier under 5.1 and JIT and a Keyword under 5.2 and
\* 5.3; the 18 base keywords are Keyword in every dialect; true, false and nil
\* are never Keyword; nothing else is a Keyword.
C10_Keywords ==
    token.type # 0 =>
        /\ Lexeme = GotoWord =>
              token.type = (IF options.luaVersion \in {"5.2", "5.3"} THEN Keyword
                            ELSE Identifier)
        /\ Lexeme \in ReservedWords => token.type = Keyword
        /\ Lexeme \in LiteralWords => token.type \in {BooleanLiteral, NilLiteral}
        /\ token.type = Keyword => Lexeme \in ReservedWords \cup {GotoWord}

\* goto has been emitted as an Identifier under JIT.
C10_Witness ==
    /\ options.luaVersion = "JIT"
    /\ Lexeme = GotoWord
    /\ token.type = Identifier

\* ------------------------------------------------------------------------
\* Where unfinishedString is reported (C11)
\* ------------------------------------------------------------------------
\* The line and the line start at the offset p, counted from the offset i of
\* line ln that starts at ls: every LF or CR starts a new line, CR LF and
\* LF CR being one end of line, paired from left to right.
RECURSIVE LinesFrom(_, _, _, _)
LinesFrom(i, ln, ls, p) ==
    IF i >= p \/ i >= Len(input) THEN [line |-> ln, lineStart |-> ls]
    ELSE IF EOLLength(i) = 0 THEN LinesFrom(i + 1, ln, ls, p)
    ELSE LinesFrom(i + EOLLength(i), ln + 1, i + EOLLength(i), p)

LineAt(p) == LinesFrom(0, 1, 0, p).line

LineStartAt(p) == LinesFrom(0, 1, 0, p).lineStart

IsUnfinishedString == pc = "error" /\ error.kind = "unfinishedString"

\* The opening delimiter of the string that lex was scanning.
OpeningDelimiter == tokenStart

\* The line and the line start of the error are those of the opening delimiter.
LineIsAnchored ==
    /\ charCodeAt(input, OpeningDelimiter) \in {34, 39}
    /\ error.line = LineAt(OpeningDelimiter)
    /\ error.lineStart = LineStartAt(OpeningDelimiter)

\* C11: every unfinishedString error is anchored at the start of the string:
\* its line and lineStart are those of the opening delimiter and its range
\* begins at the offset of the opening delimiter, also when escape sequences
\* come before the end of the input or the line terminator.
C11_AnchoredAtStart ==
    IsUnfinishedString => LineIsAnchored /\ error.range[1] = OpeningDelimiter

\* The string holds a backslash before the place where it was given up.
HasEscape == \E i \in (OpeningDelimiter + 1)..(index - 1) : charCodeAt(input, i) = 92

\* What the code does keep: line and lineStart are those of the opening
\* delimiter, and so is the start of the range when the string holds no escape
\* sequence; after an escape sequence the range starts at the last unit of the
\* last escape sequence.
C11_AnchoredUnlessEscaped ==
    IsUnfinishedString =>
        /\ LineIsAnchored
        /\ ~HasEscape => error.range[1] = OpeningDelimiter
        /\ HasEscape => error.range[1] > OpeningDelimiter

\* ------------------------------------------------------------------------
\* Lines (C12)
\* ------------------------------------------------------------------------
MaxLineFragments == 4

\* The pieces the inputs of SpecLines are made of.
LineFragments ==
    {<<10>>,                \* LF
     <<13>>,                \* CR
     <<97>>,                \* a
     <<34>>,                \* "
     <<34, 92>>,            \* "\
     <<34, 92, 122>>,       \* "\z
     <<45, 45>>,            \* --
     <<45, 45, 91, 91>>,    \* --[[
     <<91, 91>>,            \* [[
     <<93, 93>>,            \* ]]
     <<35, 33>>}            \* #!

RECURSIVE LineConcatenations(_)
LineConcatenations(n) ==
    IF n = 0 THEN {<<>>}
    ELSE LET shorter == LineConcatenations(n - 1)
         IN  shorter \cup {s \o f : s \in shorter, f \in LineFragments}

LineInputs == LineConcatenations(MaxLineFragments)

InitLines == \E s \in LineInputs, o \in OptionsOf({"5.1", "5.3"}, {TRUE}) : Start(s, o)

SpecLines == InitLines /\ [][Next]_vars

\* The token of the last pull is on the line its start offset lies on.
TokenLine ==
    token.type # 0 =>
        /\ token.line = LineAt(token.range[1])
        /\ token.lineStart = LineStartAt(token.range[1])
        /\ token.lineStart <= token.range[1]

\* From one token to the next.
NeverDecreases ==
    token.type # 0 /\ token'.type # 0 =>
        /\ token'.line >= token.line
        /\ token'.lineStart >= token.lineStart
        /\ token'.range[1] >= token.range[1]

\* C12: for every emitted token, line is 1 plus the number of end-of-line
\* sequences (LF, CR, or a CR LF / LF CR pair counted as one, paired from left
\* to right) before the token's start offset, lineStart is the offset just
\* past the last of them (0 if there is none) and lineStart <= range start;
\* from token to token line, lineStart and range start never decrease;
\* wherever the line terminators are: in whitespace, after comments, in long
\* strings and long comments, after a backslash in a short string, in a
\* skipped shebang line.
C12_LineTracking == []TokenLine /\ [][NeverDecreases]_vars

\* A name has been emitted on line 3, after a shebang line and an empty line.
C12_Witness ==
    /\ slice(input, 0, 2) = <<35, 33>>
    /\ token.type = Identifier
    /\ token.line = 3
    /\ token.lineStart = token.range[1]

\* A name has been emitted on line 2 after a short string that holds a
\* backslash and an end of line.
C12_AfterEscapedEOL ==
    /\ slice(input, 0, 2) = <<34, 92>>
    /\ token.type = Identifier
    /\ token.line = 2

\* ------------------------------------------------------------------------
\* Encoding fixup of decoded text (C13)
\* ------------------------------------------------------------------------
MaxFixLen == 3

\* a, e acute (U+00E9), the euro sign (U+20AC), the surrogates of U+1F600,
\* backslash
FixAlphabet == {97, 233, 8364, 55357, 56832, 92}

FixBodies == SeqsUpTo(FixAlphabet, MaxFixLen)

\* Each body as a short string, as a long string and as a name.
FixInputs ==
    {<<34>> \o b \o <<34>> : b \in FixBodies}
    \cup {<<91, 91>> \o b \o <<93, 93>> : b \in FixBodies}
    \cup FixBodies

FixOptions ==
    {[o EXCEPT !.extendedIdentifiers = x] :
        o \in OptionsOf({"5.1", "5.3"}, {TRUE}), x \in BOOLEAN}

InitFix ==
    \E s \in WithShebang(FixInputs, {<<34, 8364, 34>>}), o \in FixOptions : Start(s, o)

SpecFix == InitFix /\ [][Next]_vars

IsDecodedText == token.type \in {StringLiteral, Identifier, Keyword}

IsByte(u) == u \in 0..255

\* C13: the encoding fixup is applied to all decoded text: every code unit of
\* the value of every StringLiteral, Identifier and Keyword token is in 0..255,
\* each input unit >= 128 being replaced by its UTF-8 bytes, also the units
\* that directly follow a backslash in a short string when strictEscapes is
\* disabled.
C13_ValuesAreBytes ==
    IsDecodedText => \A i \in 1..Len(token.value) : IsByte(token.value[i])

\* The unit u stands in the token's source directly after a backslash.
FollowsBackslash(u) ==
    \E j \in token.range[1]..(token.range[2] - 2) :
        charCodeAt(input, j) = 92 /\ charCodeAt(input, j + 1) = u

\* What the code does keep: the only units above 255 in a value are those that
\* directly follow a backslash in a short string when strictEscapes is
\* disabled (5.1); names and long strings are all bytes.
C13_ExceptAfterBackslash ==
    IsDecodedText =>
        \A i \in 1..Len(token.value) :
            \/ IsByte(token.value[i])
            \/ /\ token.type = StringLiteral
               /\ charCodeAt(input, token.range[1]) = 34
               /\ options.luaVersion = "5.1"
               /\ FollowsBackslash(token.value[i])

\* The euro sign in a short string, in a long string and in a name has become
\* its UTF-8 bytes E2 82 AC.
C13_FixedUp ==
    token.type # 0 /\ slice(input, token.range[1], token.range[2])
                         \in {<<34, 8364, 34>>, <<91, 91, 8364, 93, 93>>, <<8364>>}
        => token.value = <<226, 130, 172>>

====
